---------------------------- MODULE Spec2Model ----------------------------
(***************************************************************************)
(* MediQ: the upload handler (backend/api/app.py and its earlier revision  *)
(* api/app.py) and the analysis engine (backend/api/ai_engine.py).         *)
(*                                                                         *)
(* Numbers with a fractional part (confidences) are kept in hundredths.    *)
(* Optional JSON fields are strings with two reserved values, ABSENT (the  *)
(* key is missing) and NULL (the key is there and holds null).             *)
(***************************************************************************)
EXTENDS Integers, Sequences, FiniteSets, TLC

ABSENT == "<absent>"
NULL == "<null>"

(***************************************************************************)
(* The texts extract_text hands back for the uploaded documents.  The two  *)
(* first are too short for the handler, the two last are analysed.         *)
(***************************************************************************)
TextA == "Glucose 180 mg/dL"
TextB == "Hemoglobin 13.5 g/dL"
ShortTexts == {"", "Hb 9.1"}

\* get_text_hash: SHA-256 of the text, taken to be free of collisions.
get_text_hash(text) == <<"sha256", text>>

---------------------------------------------------------------------------
(***************************************************************************)
(* What an engine can answer.  A completion is an exception of the client  *)
(* (network, authentication, quota, "Groq disabled") or a text: a payload, *)
(* possibly wrapped in ```json fences, possibly with prose around it.      *)
(* The payload is one of                                                   *)
(*   none       no JSON at all                                             *)
(*   badbraces  braces around something json.loads refuses                 *)
(*   list       a JSON array without any brace in it                       *)
(*   obj        a JSON object                                              *)
(***************************************************************************)
Conf(kind, val) == [kind |-> kind, val |-> val]
ConfAbsent == Conf("absent", 0)

RawParam(name, status, confidence, explanation) ==
    [kind |-> "obj", name |-> name, status |-> status,
     confidence |-> confidence, explanation |-> explanation]

\* A parameters entry that is a JSON string instead of an object.
RawParamString == [kind |-> "str", name |-> ABSENT, status |-> ABSENT,
                   confidence |-> ConfAbsent, explanation |-> ABSENT]

Params(kind, items) == [kind |-> kind, items |-> items]

Profile(kind, name) == [kind |-> kind, name |-> name]

Payload(kind, user_profile, parameters, summary, recommendations) ==
    [kind |-> kind, user_profile |-> user_profile, parameters |-> parameters,
     summary |-> summary, recommendations |-> recommendations]

NoObject(kind) ==
    Payload(kind, Profile("absent", ABSENT), Params("absent", <<>>), ABSENT, ABSENT)

Object(parameters) ==
    Payload("obj", Profile("obj", "Asha"), parameters, "Report read.", "rest")

\* The spec's example: critical, high, normal, each with its confidence.
PayloadExample ==
    Object(Params("list", <<RawParam("Glucose", "critical", Conf("num", 70), "very high"),
                            RawParam("LDL", "HIGH", Conf("num", 80), ABSENT),
                            RawParam("Hb", "normal", Conf("num", 90), ABSENT)>>))

\* Five critical findings: 100 - 125 is below the floor of the score.
PayloadCritical ==
    Object(Params("list", [i \in 1..5 |->
                  RawParam("K", "critical", Conf("num", 70), ABSENT)]))

\* The engine leaves out the confidence of one finding and reports 0 for another.
PayloadNoConfidence ==
    Payload("obj", Profile("absent", ABSENT),
            Params("list", <<RawParam(ABSENT, "low", ConfAbsent, ABSENT),
                             RawParam("TSH", "borderline", Conf("num", 0), ABSENT)>>),
            ABSENT, ABSENT)

\* An object without any of the expected keys.
PayloadBare ==
    Payload("obj", Profile("absent", ABSENT), Params("absent", <<>>), ABSENT, ABSENT)

\* Objects of an unexpected shape.
PayloadProfileNull ==
    Payload("obj", Profile("null", ABSENT), Params("list", <<>>), "s", ABSENT)
PayloadParamsNull ==
    Payload("obj", Profile("obj", "Asha"), Params("null", <<>>), "s", ABSENT)
PayloadParamString ==
    Object(Params("list", <<RawParamString>>))
PayloadConfidenceText ==
    Object(Params("list", <<RawParam("Hb", "normal", Conf("str", 0), ABSENT)>>))

GoodPayloads == {PayloadExample, PayloadCritical, PayloadNoConfidence, PayloadBare}
OddPayloads == {NoObject("list"), PayloadProfileNull, PayloadParamsNull,
                PayloadParamString, PayloadConfidenceText}
NonJsonPayloads == {NoObject("none"), NoObject("badbraces")}
Payloads == GoodPayloads \cup OddPayloads \cup NonJsonPayloads

Completion(error, fenced, prose, payload) ==
    [error |-> error, fenced |-> fenced, prose |-> prose, payload |-> payload]

Completions ==
    {Completion(TRUE, FALSE, FALSE, NoObject("none"))}
    \cup {Completion(FALSE, f, p, d) : f \in BOOLEAN, p \in BOOLEAN, d \in Payloads}

(***************************************************************************)
(* extract_json.  The fences are stripped; json.loads takes the text when  *)
(* nothing but a JSON value is left; otherwise the span from the first "{" *)
(* to the last "}" is decoded, and a text without braces has none.         *)
(* The result is [ok, data]: ok is FALSE where the function raises.        *)
(***************************************************************************)
Raised == [ok |-> FALSE, data |-> NoObject("none")]
Returned(data) == [ok |-> TRUE, data |-> data]

\* text.replace("```json", "").replace("```", "").strip()
strip_fences(c) == [c EXCEPT !.fenced = FALSE]

\* json.loads of a whole text.
json_loads(c) ==
    IF ~c.fenced /\ ~c.prose /\ c.payload.kind \in {"list", "obj"}
    THEN Returned(c.payload) ELSE Raised

\* re.search(r"\{[\s\S]*\}", text), and the text it matched.
brace_span(c) ==
    IF c.payload.kind \in {"badbraces", "obj"}
    THEN Returned(c.payload) ELSE Raised

\* extract_json handing back whatever it was given when it finds no JSON.
extract_json_lenient(c) ==
    LET text == strip_fences(c)
    IN  IF json_loads(text).ok THEN json_loads(text) ELSE Returned(c.payload)

extract_json(c) ==
    LET text == strip_fences(c)
    IN  IF json_loads(text).ok THEN json_loads(text)
        ELSE IF ~brace_span(text).ok THEN Raised
        ELSE json_loads(Completion(FALSE, FALSE, FALSE, brace_span(text).data))

\* analyze_with_gemini, analyze_with_groq: the client's call, then extract_json.
analyze_with_engine(c) == IF c.error THEN Raised ELSE extract_json(c)

\* The offline result without its summary.
analyze_with_regex_no_summary ==
    Payload("obj", Profile("obj", ABSENT), Params("list", <<>>), ABSENT, ABSENT)

\* analyze_with_regex: the offline result.
analyze_with_regex ==
    Payload("obj", Profile("obj", ABSENT), Params("list", <<>>),
            "Offline extraction used.", ABSENT)

---------------------------------------------------------------------------
(***************************************************************************)
(* Heuristics and scoring.                                                 *)
(***************************************************************************)
\* str.lower on the statuses the payloads use.
Lower(status) ==
    CASE status = "HIGH" -> "high"
      [] status = "Critical" -> "critical"
      [] OTHER -> status

\* What random.uniform may draw: the two ends of the range it is given.
Draws == {"lo", "hi"}

\* generate_confidence: round(random.uniform(lo, hi), 2), in hundredths.
generate_confidence(status, u) ==
    LET s == Lower(status)
        range == CASE s = "normal" -> <<85, 98>>
                   [] s \in {"low", "high"} -> <<75, 90>>
                   [] s = "critical" -> <<65, 85>>
                   [] OTHER -> <<60, 80>>
    IN  IF u = "lo" THEN range[1] ELSE range[2]

is_red_flag(status) == Lower(status) = "critical"

Max(a, b) == IF a >= b THEN a ELSE b
Min(a, b) == IF a <= b THEN a ELSE b

\* The loop counting a normal finding as an abnormal one.
RECURSIVE score_loop_normal_abnormal(_, _, _)
score_loop_normal_abnormal(parameters, i, acc) ==
    IF i > Len(parameters) THEN acc
    ELSE LET status == parameters[i].status
             sum == acc.confidence_sum + parameters[i].confidence
             next == CASE status = "critical" ->
                            [acc EXCEPT !.score = @ - 25, !.critical = @ + 1]
                       [] status \in {"high", "low"} ->
                            [acc EXCEPT !.score = @ - 12, !.abnormal = @ + 1]
                       [] status = "normal" ->
                            [acc EXCEPT !.score = @ - 2, !.abnormal = @ + 1]
                       [] OTHER -> acc
         IN  score_loop_normal_abnormal(parameters, i + 1,
                                        [next EXCEPT !.confidence_sum = sum])

\* The loop left at the first parameter whose status it does not know.
RECURSIVE score_loop_break(_, _, _)
score_loop_break(parameters, i, acc) ==
    IF i > Len(parameters) THEN acc
    ELSE LET status == parameters[i].status
             sum == acc.confidence_sum + parameters[i].confidence
             next == CASE status = "critical" ->
                            [acc EXCEPT !.score = @ - 25, !.critical = @ + 1]
                       [] status \in {"high", "low"} ->
                            [acc EXCEPT !.score = @ - 12, !.abnormal = @ + 1]
                       [] status = "normal" ->
                            [acc EXCEPT !.score = @ - 2]
                       [] OTHER -> acc
         IN  IF status \notin {"critical", "high", "low", "normal"} THEN acc
             ELSE score_loop_break(parameters, i + 1,
                                   [next EXCEPT !.confidence_sum = sum])

\* The loop of calculate_risk_score over parameters[i..], from the
\* accumulators acc = [score, critical, abnormal, confidence_sum].
RECURSIVE score_loop(_, _, _)
score_loop(parameters, i, acc) ==
    IF i > Len(parameters) THEN acc
    ELSE LET status == parameters[i].status
             sum == acc.confidence_sum + parameters[i].confidence
             next == CASE status = "critical" ->
                            [acc EXCEPT !.score = @ - 25, !.critical = @ + 1]
                       [] status \in {"high", "low"} ->
                            [acc EXCEPT !.score = @ - 12, !.abnormal = @ + 1]
                       [] status = "normal" ->
                            [acc EXCEPT !.score = @ - 2]
                       [] OTHER -> acc
         IN  score_loop(parameters, i + 1, [next EXCEPT !.confidence_sum = sum])

\* The clamp without its floor.
clamp_score_no_floor(score) == Min(100, score)

\* score = max(5, min(100, score))
clamp_score(score) == Max(5, Min(100, score))

\* The tiers with the first threshold excluded.
risk_tier_above(score) ==
    IF score > 75 THEN "low-risk"
    ELSE IF score >= 45 THEN "moderate-risk"
    ELSE "high-risk"

\* The tier of a clamped score.
risk_tier(score) ==
    IF score >= 75 THEN "low-risk"
    ELSE IF score >= 45 THEN "moderate-risk"
    ELSE "high-risk"

\* round(confidence_sum / max(len(parameters), 1), 2), halves rounded up.
average_confidence(confidence_sum, n) ==
    (2 * confidence_sum + Max(n, 1)) \div (2 * Max(n, 1))

calculate_risk_score(parameters) ==
    LET acc == score_loop(parameters, 1,
                 [score |-> 100, critical |-> 0, abnormal |-> 0, confidence_sum |-> 0])
        score == clamp_score(acc.score)
    IN  [health_score |-> score,
         overall_risk |-> risk_tier(score),
         critical_count |-> acc.critical,
         abnormal_count |-> acc.abnormal,
         average_confidence |-> average_confidence(acc.confidence_sum, Len(parameters))]

---------------------------------------------------------------------------
(***************************************************************************)
(* normalize_result.                                                       *)
(***************************************************************************)
ENGINE_VERSION == "v5.0-prod"

\* safe(v): v if v is not None else "".  dict.get gives None for a missing key.
safe(v) == IF v \in {ABSENT, NULL} THEN "" ELSE v

\* str(p.get("status", "normal")).lower()
param_status(p) ==
    IF p.status = ABSENT THEN "normal"
    ELSE IF p.status = NULL THEN "none"
    ELSE Lower(p.status)

\* p.get("confidence") or generate_confidence(status): None and 0 are falsy.
param_confidence(p, u) ==
    IF p.confidence.kind \in {"absent", "null"}
       \/ (p.confidence.kind = "num" /\ p.confidence.val = 0)
    THEN generate_confidence(param_status(p), u)
    ELSE p.confidence.val

\* p.get("explanation") or f"{p.get('name','This biomarker')} interpreted as {status}."
param_explanation(p) ==
    IF p.explanation \in {ABSENT, NULL, ""}
    THEN <<"interpreted", IF p.name = ABSENT THEN "This biomarker"
                          ELSE IF p.name = NULL THEN "None" ELSE p.name,
           param_status(p)>>
    ELSE <<"given", p.explanation, "">>

\* The places where normalize_result raises: data.get on a list, a loop over
\* None, p.get on a string, float() of a text, .get on a null user_profile.
normalize_raises(data) ==
    \/ data.kind # "obj"
    \/ data.parameters.kind = "null"
    \/ \E i \in 1..Len(data.parameters.items) :
          \/ data.parameters.items[i].kind # "obj"
          \/ data.parameters.items[i].confidence.kind = "str"
    \/ data.user_profile.kind = "null"

\* The report; draws[i] is what random.uniform gives for parameter i, and
\* stamp stands for datetime.utcnow() in the audit block.
normalize_result(data, engine, processing_time_ms, cache_hit, draws, stamp) ==
    LET items == data.parameters.items
        parameters == [i \in 1..Len(items) |->
            [name |-> safe(items[i].name),
             status |-> param_status(items[i]),
             confidence |-> param_confidence(items[i], draws[i]),
             explanation |-> param_explanation(items[i]),
             red_flag |-> is_red_flag(param_status(items[i]))]]
    IN  [user_profile |-> [name |-> safe(data.user_profile.name)],
         parameters |-> parameters,
         summary |-> safe(data.summary),
         recommendations |-> IF data.recommendations = ABSENT THEN "[]"
                             ELSE data.recommendations,
         risk_metrics |-> calculate_risk_score(parameters),
         audit |-> [analysis_id |-> stamp,
                    timestamp |-> stamp,
                    engine |-> engine,
                    engine_version |-> ENGINE_VERSION,
                    processing_time_ms |-> processing_time_ms,
                    cache_hit |-> cache_hit]]

---------------------------------------------------------------------------
(***************************************************************************)
(* The upload handler's helpers.                                           *)
(***************************************************************************)
MAX_HISTORY == 15
MAX_FILE_SIZE_BYTES == 10 * 1024 * 1024
ALLOWED_EXTENSIONS == {".pdf", ".png", ".jpg", ".jpeg", ".csv"}

\* An uploaded file; present is whether the request has a "file" part.
File(present, filename, ext, size) ==
    [present |-> present, filename |-> filename, ext |-> ext, size |-> size]

Files == {File(FALSE, "", "", 0),
          File(TRUE, "", "", 10),
          File(TRUE, "virus.exe", ".exe", 10),
          File(TRUE, "scan.pdf", ".pdf", MAX_FILE_SIZE_BYTES + 1),
          File(TRUE, "scan.pdf", ".pdf", MAX_FILE_SIZE_BYTES),
          File(TRUE, "labs.csv", ".csv", 10)}

validate_file(file) ==
    /\ file.filename # ""
    /\ file.ext \in ALLOWED_EXTENSIONS
    /\ ~(file.size > MAX_FILE_SIZE_BYTES)

\* The fields of the snapshot that are read again; report_id stands for the
\* fresh uuid (session_id, timestamp, filename, file_type and
\* processing_time are written and never read).
Snapshot(id, report) ==
    [report_id |-> id,
     health_score |-> report.risk_metrics.health_score,
     overall_risk |-> report.risk_metrics.overall_risk]

\* calculate_trend comparing the newest entry with the oldest.
calculate_trend_oldest(history) ==
    IF Len(history) < 2 THEN "stable"
    ELSE LET current == history[Len(history)].health_score
             previous == history[1].health_score
         IN  IF current > previous THEN "improving"
             ELSE IF current < previous THEN "declining"
             ELSE "stable"

\* calculate_trend of backend/api/app.py.
calculate_trend(history) ==
    IF Len(history) < 2 THEN "stable"
    ELSE LET current == history[Len(history)].health_score
             previous == history[Len(history) - 1].health_score
         IN  IF current > previous THEN "improving"
             ELSE IF current < previous THEN "declining"
             ELSE "stable"

\* dict.get("health_score", 0) of api/app.py: every snapshot has the key.
get_health_score(entry) ==
    IF "health_score" \in DOMAIN entry THEN entry.health_score ELSE 0

\* calculate_trend of api/app.py.
calculate_trend_api(history) ==
    IF Len(history) < 2 THEN "stable"
    ELSE LET current == get_health_score(history[Len(history)])
             previous == get_health_score(history[Len(history) - 1])
         IN  IF current > previous THEN "improving"
             ELSE IF current < previous THEN "declining"
             ELSE "stable"

\* len(extracted_text.strip()) of the texts above, none of which has blanks
\* at its ends.
stripped_len(text) == Len(text)

\* not extracted_text or len(extracted_text.strip()) < 10
unreadable(text) == text = "" \/ stripped_len(text) < 10

---------------------------------------------------------------------------
(***************************************************************************)
(* The state.  Every request is served by one worker of the threaded WSGI  *)
(* server; the module-level objects are shared by all of them.             *)
(*                                                                         *)
(* Python dictionaries that are shared by reference (the reports) live in  *)
(* heap, a function from object identities to dictionaries; a dictionary   *)
(* is a function from its keys to their values.                            *)
(***************************************************************************)
VARIABLES
    rev,             \* the deployed app.py: "backend" or "api"
    CACHE,           \* ai_engine.CACHE: text hash -> identity of the report
    heap,            \* the live report dictionaries
    REPORT_HISTORY,  \* app.REPORT_HISTORY
    SYSTEM_METRICS,  \* app.SYSTEM_METRICS
    pc,              \* where each worker stands in the handler
    local,           \* each worker's local variables
    counter,         \* requests received, objects made, report ids drawn
    seen,            \* what has happened so far (not program state)
    arg, result      \* argument and result of a helper applied on its own

vars == <<rev, CACHE, heap, REPORT_HISTORY, SYSTEM_METRICS, pc, local,
          counter, seen, arg, result>>

Procs == {1, 2}
AllTexts == {TextA, TextB}

\* Requests one run serves: with two workers, and with one.
MaxRequests == 3
MaxRequestsSeq == 3

\* int(processing_time * 1000) of a cache miss.
ElapsedMs == {250}

CanonicalKeys == {"user_profile", "parameters", "summary", "recommendations",
                  "risk_metrics", "audit"}

EmptyDict == [k \in {} |-> 0]

Locals == [extracted_text |-> ABSENT,
           text |-> "", events |-> <<>>, hit |-> FALSE, prior |-> FALSE,
           raw |-> NoObject("none"), engine_used |-> "", ai_result |-> 0,
           snapshot |-> <<>>, tmp |-> 0, status |-> 0, exc |-> ""]

\* The process as it starts.
Fresh ==
    /\ CACHE = EmptyDict
    /\ heap = EmptyDict
    /\ REPORT_HISTORY = <<>>
    /\ SYSTEM_METRICS = [total_files_processed |-> 0, successful_scans |-> 0,
                         failed_scans |-> 0, ocr_extractions |-> 0]
    /\ counter = [base |-> 0, req |-> 0, obj |-> 0, rep |-> 0]
    /\ seen = [primary |-> 0, analysed |-> {},
               first |-> [t \in AllTexts |-> <<>>], appended |-> <<>>]

(***************************************************************************)
(* The process after MAX_HISTORY - 1 uploads of the document TextA, served *)
(* one at a time: the primary engine answered the first with the example   *)
(* payload, the others were cache hits.  A run that starts here has the    *)
(* history one entry short of its capacity.                                *)
(***************************************************************************)
WarmUploads == MAX_HISTORY - 1

\* A hit that also stamps the report anew.
mark_cache_hit_restamped(report) ==
    [report EXCEPT !.audit = [@ EXCEPT !.cache_hit = TRUE, !.engine = "cache",
                                       !.processing_time_ms = 1, !.timestamp = 0]]

\* cached["audit"]["cache_hit"] = True; cached["audit"]["engine"] = "cache";
\* cached["audit"]["processing_time_ms"] = 1
mark_cache_hit(report) ==
    [report EXCEPT !.audit = [@ EXCEPT !.cache_hit = TRUE, !.engine = "cache",
                                       !.processing_time_ms = 1]]

WarmFirst == normalize_result(PayloadExample, "gemini", 250, FALSE,
                              [i \in 1..3 |-> "lo"], 1)

WarmHistory == [i \in 1..WarmUploads |-> Snapshot(i, WarmFirst)]

WarmReport ==
    [meta |-> WarmHistory[WarmUploads],
     history |-> "REPORT_HISTORY",
     trend |-> "stable",
     system_stats |-> "SYSTEM_METRICS"]
    @@ mark_cache_hit(WarmFirst)

Warm ==
    /\ CACHE = (get_text_hash(TextA) :> 1)
    /\ heap = (1 :> WarmReport)
    /\ REPORT_HISTORY = WarmHistory
    /\ SYSTEM_METRICS = [total_files_processed |-> WarmUploads,
                         successful_scans |-> WarmUploads,
                         failed_scans |-> 0, ocr_extractions |-> 0]
    /\ counter = [base |-> WarmUploads, req |-> WarmUploads, obj |-> 1,
                  rep |-> WarmUploads]
    /\ seen = [primary |-> 1, analysed |-> {TextA},
               first |-> [t \in AllTexts |->
                            IF t = TextA THEN <<[obj |-> 1, report |-> WarmFirst]>>
                            ELSE <<>>],
               appended |-> WarmHistory]

Init ==
    /\ rev \in {"backend", "api"}
    /\ (Fresh \/ Warm)
    /\ pc = [p \in Procs |-> "idle"]
    /\ local = [p \in Procs |-> Locals]
    /\ arg = <<>>
    /\ result = ""

Goto(p, label) == pc' = [pc EXCEPT ![p] = label]
Set(p, l) == local' = [local EXCEPT ![p] = l]

---------------------------------------------------------------------------
(***************************************************************************)
(* upload / upload_file, up to the call of analyze_medical_text.           *)
(***************************************************************************)
\* The request arrives at the first free worker; its file part is looked
\* up, validated and saved.
Receive(p, maxRequests) ==
    /\ pc[p] = "idle"
    /\ \A q \in Procs : q < p => pc[q] # "idle"
    /\ counter.req < counter.base + maxRequests
    /\ \E file \in Files :
          IF ~file.present \/ ~validate_file(file)
          THEN /\ Goto(p, "fail_read")
               /\ Set(p, [local[p] EXCEPT !.status = 400])
          ELSE /\ Goto(p, "extract")
               /\ UNCHANGED local
    /\ counter' = [counter EXCEPT !.req = @ + 1]
    /\ UNCHANGED <<rev, CACHE, heap, REPORT_HISTORY, SYSTEM_METRICS, seen, arg, result>>

\* extract_text and the test of its result.  The later revision raises
\* ValueError into its own except clause, the earlier one answers 422.
Extract(p, texts) ==
    /\ pc[p] = "extract"
    /\ \E text \in ShortTexts \cup texts :
          IF unreadable(text)
          THEN IF rev = "backend"
               THEN /\ Goto(p, "fail_read")
                    /\ Set(p, [local[p] EXCEPT !.extracted_text = text,
                                               !.status = 500, !.exc = "extraction"])
               ELSE /\ Goto(p, "respond")
                    /\ Set(p, [local[p] EXCEPT !.extracted_text = text,
                                               !.status = 422])
          ELSE /\ Goto(p, "lookup")
               /\ Set(p, [local[p] EXCEPT !.extracted_text = text, !.text = text])
    /\ UNCHANGED <<rev, CACHE, heap, REPORT_HISTORY, SYSTEM_METRICS, counter, seen,
                   arg, result>>

\* SYSTEM_METRICS["failed_scans"] += 1: the read, then the write.
FailRead(p) ==
    /\ pc[p] = "fail_read"
    /\ Set(p, [local[p] EXCEPT !.tmp = SYSTEM_METRICS.failed_scans])
    /\ Goto(p, "fail_write")
    /\ UNCHANGED <<rev, CACHE, heap, REPORT_HISTORY, SYSTEM_METRICS, counter, seen,
                   arg, result>>

\* A failure counted as a processed file as well.
FailWriteCountsTotal(p) ==
    /\ pc[p] = "fail_write"
    /\ SYSTEM_METRICS' = [SYSTEM_METRICS EXCEPT !.failed_scans = local[p].tmp + 1,
                                                !.total_files_processed = @ + 1]
    /\ Goto(p, "respond")
    /\ UNCHANGED <<rev, CACHE, heap, REPORT_HISTORY, local, counter, seen, arg, result>>

FailWrite(p) ==
    /\ pc[p] = "fail_write"
    /\ SYSTEM_METRICS' = [SYSTEM_METRICS EXCEPT !.failed_scans = local[p].tmp + 1]
    /\ Goto(p, "respond")
    /\ UNCHANGED <<rev, CACHE, heap, REPORT_HISTORY, local, counter, seen, arg, result>>

---------------------------------------------------------------------------
(***************************************************************************)
(* analyze_medical_text.                                                   *)
(***************************************************************************)
\* A lookup that never finds the key.
InCacheNever(text) == get_text_hash(text) \in {}

\* A lookup that passes over a stored report without parameters.
InCacheWithParameters(text) ==
    /\ get_text_hash(text) \in DOMAIN CACHE
    /\ heap[CACHE[get_text_hash(text)]].parameters # <<>>

\* text_hash in CACHE
InCache(text) == get_text_hash(text) \in DOMAIN CACHE

\* The lookup, and the whole of the cache-hit branch.
Lookup(p) ==
    LET text == local[p].text
        started == [seen EXCEPT !.analysed = @ \cup {text}]
        prior == seen.first[text] # <<>>
    IN  /\ pc[p] = "lookup"
        /\ seen' = started
        /\ IF InCache(text)
           THEN LET cached == CACHE[get_text_hash(text)]
                IN  /\ heap' = [heap EXCEPT ![cached] = mark_cache_hit(@)]
                    /\ Set(p, [local[p] EXCEPT !.ai_result = cached, !.hit = TRUE,
                                               !.prior = prior])
                    /\ Goto(p, "append")
           ELSE /\ Set(p, [local[p] EXCEPT !.engine_used = "gemini", !.prior = prior])
                /\ Goto(p, "gemini")
                /\ UNCHANGED heap
        /\ UNCHANGED <<rev, CACHE, REPORT_HISTORY, SYSTEM_METRICS, counter, arg, result>>

\* What an attempt got from its engine, for the record of the call: an
\* exception, a text without JSON, or a text with a JSON value in it.
Answer(c) ==
    IF c.error THEN "exception"
    ELSE IF c.payload.kind \in {"none", "badbraces"} THEN "nonjson" ELSE "json"

\* The primary engine attempted again after it has failed.
GeminiRetry(p, completions) ==
    /\ pc[p] = "gemini"
    /\ \E c \in completions :
          LET r == analyze_with_engine(c)
              events == Append(local[p].events, <<"gemini", Answer(c), r.ok>>)
          IN  IF r.ok
              THEN /\ Set(p, [local[p] EXCEPT !.raw = r.data, !.events = events])
                   /\ Goto(p, "normalize")
              ELSE /\ Set(p, [local[p] EXCEPT !.events = events])
                   /\ Goto(p, IF Len(events) < 2 THEN "gemini" ELSE "groq")
    /\ seen' = [seen EXCEPT !.primary = @ + 1]
    /\ UNCHANGED <<rev, CACHE, heap, REPORT_HISTORY, SYSTEM_METRICS, counter, arg, result>>

\* try: raw = analyze_with_gemini(text)
Gemini(p, completions) ==
    /\ pc[p] = "gemini"
    /\ \E c \in completions :
          LET r == analyze_with_engine(c)
              events == Append(local[p].events, <<"gemini", Answer(c), r.ok>>)
          IN  IF r.ok
              THEN /\ Set(p, [local[p] EXCEPT !.raw = r.data, !.events = events])
                   /\ Goto(p, "normalize")
              ELSE /\ Set(p, [local[p] EXCEPT !.events = events])
                   /\ Goto(p, "groq")
    /\ seen' = [seen EXCEPT !.primary = @ + 1]
    /\ UNCHANGED <<rev, CACHE, heap, REPORT_HISTORY, SYSTEM_METRICS, counter, arg, result>>

\* except: try: raw = analyze_with_groq(text) except: raw = analyze_with_regex(text)
Groq(p, completions) ==
    /\ pc[p] = "groq"
    /\ \E c \in completions :
          LET r == analyze_with_engine(c)
              events == Append(local[p].events, <<"groq", Answer(c), r.ok>>)
          IN  IF r.ok
              THEN Set(p, [local[p] EXCEPT !.raw = r.data, !.events = events,
                                           !.engine_used = "groq"])
              ELSE Set(p, [local[p] EXCEPT !.raw = analyze_with_regex,
                                           !.events = events,
                                           !.engine_used = "regex"])
    /\ Goto(p, "normalize")
    /\ UNCHANGED <<rev, CACHE, heap, REPORT_HISTORY, SYSTEM_METRICS, counter, seen,
                   arg, result>>

\* normalize_result, CACHE[text_hash] = normalized, return normalized.  An
\* exception of normalize_result leaves the function and reaches the
\* handler's except clause.
Normalize(p) ==
    LET l == local[p]
        id == counter.obj + 1
    IN  /\ pc[p] = "normalize"
        /\ IF normalize_raises(l.raw)
           THEN /\ Set(p, [l EXCEPT !.status = 500, !.exc = "analysis"])
                /\ Goto(p, "fail_read")
                /\ UNCHANGED <<CACHE, heap, counter, seen>>
           ELSE \E draws \in [1..Len(l.raw.parameters.items) -> Draws], ms \in ElapsedMs :
                  LET normalized == normalize_result(l.raw, l.engine_used, ms, FALSE,
                                                     draws, id)
                  IN  /\ heap' = (id :> normalized) @@ heap
                      /\ CACHE' = (get_text_hash(l.text) :> id) @@ CACHE
                      /\ counter' = [counter EXCEPT !.obj = id]
                      /\ seen' = [seen EXCEPT !.first[l.text] =
                                    IF @ = <<>> THEN <<[obj |-> id, report |-> normalized]>>
                                    ELSE @]
                      /\ Set(p, [l EXCEPT !.ai_result = id])
                      /\ Goto(p, "append")
        /\ UNCHANGED <<rev, REPORT_HISTORY, SYSTEM_METRICS, arg, result>>

---------------------------------------------------------------------------
(***************************************************************************)
(* upload / upload_file, after analyze_medical_text has returned.          *)
(***************************************************************************)
\* snapshot = {...}; REPORT_HISTORY.append(snapshot)
AppendSnapshot(p) ==
    LET id == counter.rep + 1
        snapshot == Snapshot(id, heap[local[p].ai_result])
    IN  /\ pc[p] = "append"
        /\ REPORT_HISTORY' = Append(REPORT_HISTORY, snapshot)
        /\ counter' = [counter EXCEPT !.rep = id]
        /\ seen' = [seen EXCEPT !.appended = Append(@, snapshot)]
        /\ Set(p, [Locals EXCEPT !.ai_result = local[p].ai_result,
                                 !.snapshot = snapshot])
        /\ Goto(p, "trim")
        /\ UNCHANGED <<rev, CACHE, heap, SYSTEM_METRICS, arg, result>>

\* if len(REPORT_HISTORY) > MAX_HISTORY:
Trim(p) ==
    /\ pc[p] = "trim"
    /\ IF Len(REPORT_HISTORY) > MAX_HISTORY
       THEN Goto(p, "pop") ELSE Goto(p, "total_read")
    /\ UNCHANGED <<rev, CACHE, heap, REPORT_HISTORY, SYSTEM_METRICS, local, counter,
                   seen, arg, result>>

\* pop() without its index: the newest entry goes.
list_pop_last(list) == SubSeq(list, 1, Len(list) - 1)

\* REPORT_HISTORY.pop(0)
list_pop_first(list) == Tail(list)

Pop(p) ==
    /\ pc[p] = "pop"
    /\ REPORT_HISTORY' = list_pop_first(REPORT_HISTORY)
    /\ Goto(p, "total_read")
    /\ UNCHANGED <<rev, CACHE, heap, SYSTEM_METRICS, local, counter, seen, arg, result>>

\* SYSTEM_METRICS["total_files_processed"] += 1
TotalRead(p) ==
    /\ pc[p] = "total_read"
    /\ Set(p, [local[p] EXCEPT !.tmp = SYSTEM_METRICS.total_files_processed])
    /\ Goto(p, "total_write")
    /\ UNCHANGED <<rev, CACHE, heap, REPORT_HISTORY, SYSTEM_METRICS, counter, seen,
                   arg, result>>

TotalWrite(p) ==
    /\ pc[p] = "total_write"
    /\ SYSTEM_METRICS' = [SYSTEM_METRICS EXCEPT
                             !.total_files_processed = local[p].tmp + 1]
    /\ Goto(p, "succ_read")
    /\ UNCHANGED <<rev, CACHE, heap, REPORT_HISTORY, local, counter, seen, arg, result>>

\* SYSTEM_METRICS["successful_scans"] += 1
SuccRead(p) ==
    /\ pc[p] = "succ_read"
    /\ Set(p, [local[p] EXCEPT !.tmp = SYSTEM_METRICS.successful_scans])
    /\ Goto(p, "succ_write")
    /\ UNCHANGED <<rev, CACHE, heap, REPORT_HISTORY, SYSTEM_METRICS, counter, seen,
                   arg, result>>

\* The increment done in one indivisible step.
SuccWriteAtomic(p) ==
    /\ pc[p] = "succ_write"
    /\ SYSTEM_METRICS' = [SYSTEM_METRICS EXCEPT !.successful_scans = @ + 1]
    /\ Goto(p, "update")
    /\ UNCHANGED <<rev, CACHE, heap, REPORT_HISTORY, local, counter, seen, arg, result>>

SuccWrite(p) ==
    /\ pc[p] = "succ_write"
    /\ SYSTEM_METRICS' = [SYSTEM_METRICS EXCEPT !.successful_scans = local[p].tmp + 1]
    /\ Goto(p, "update")
    /\ UNCHANGED <<rev, CACHE, heap, REPORT_HISTORY, local, counter, seen, arg, result>>

\* The trend helper of the deployed revision.
Trend(history) ==
    IF rev = "backend" THEN calculate_trend(history) ELSE calculate_trend_api(history)

\* dict.update: the keys of more override those of d.
dict_update(d, more) == more @@ d

\* ai_result.update({meta, history, trend, system_stats}); in the earlier
\* revision four assignments to the same keys.  history and system_stats
\* hold the module's own list and dictionary, not copies.
Update(p) ==
    LET ai_result == local[p].ai_result
    IN  /\ pc[p] = "update"
        /\ heap' = [heap EXCEPT ![ai_result] = dict_update(@,
                      [meta |-> local[p].snapshot,
                       history |-> "REPORT_HISTORY",
                       trend |-> Trend(REPORT_HISTORY),
                       system_stats |-> "SYSTEM_METRICS"])]
        /\ Set(p, [local[p] EXCEPT !.status = 200])
        /\ Goto(p, "respond")
        /\ UNCHANGED <<rev, CACHE, REPORT_HISTORY, SYSTEM_METRICS, counter, seen,
                       arg, result>>

\* The objects still referred to once worker p has dropped its locals.
Referenced(p) ==
    {CACHE[h] : h \in DOMAIN CACHE}
    \cup {local[q].ai_result : q \in Procs \ {p}}

\* return jsonify(...): the response leaves and the worker is free again.
\* The calls on the saved file (file.save before, os.remove or safe_delete
\* after) are taken to succeed.
Respond(p) ==
    /\ pc[p] = "respond"
    /\ heap' = [id \in DOMAIN heap \cap Referenced(p) |-> heap[id]]
    /\ Set(p, Locals)
    /\ Goto(p, "idle")
    /\ UNCHANGED <<rev, CACHE, REPORT_HISTORY, SYSTEM_METRICS, counter, seen, arg, result>>

\* GET /history: what the route answers in the current state.
history ==
    [count |-> Len(REPORT_HISTORY), reports |-> REPORT_HISTORY,
     metrics |-> SYSTEM_METRICS]

\* A /history request served by a thread of its own, at any moment: it reads
\* the module's list and dictionary, answers, and changes nothing.
History ==
    /\ history.count = Len(history.reports)
    /\ UNCHANGED vars

---------------------------------------------------------------------------
(***************************************************************************)
(* The specifications.                                                     *)
(***************************************************************************)
\* The steps of worker p inside a request.
Step(p) ==
    \/ FailRead(p) \/ FailWrite(p)
    \/ Lookup(p) \/ Normalize(p)
    \/ AppendSnapshot(p) \/ Trim(p) \/ Pop(p)
    \/ TotalRead(p) \/ TotalWrite(p) \/ SuccRead(p) \/ SuccWrite(p)
    \/ Update(p) \/ Respond(p)

\* What the engines answer while two workers are busy: an exception, or a
\* plain JSON object with a confidence left to generate_confidence.
RaceCompletions == {Completion(TRUE, FALSE, FALSE, NoObject("none")),
                    Completion(FALSE, FALSE, FALSE, PayloadNoConfidence)}

\* Two workers serving uploads of one document at the same time, and
\* /history requests in between their statements.
Next ==
    \E p \in Procs :
        \/ Receive(p, MaxRequests) \/ Extract(p, {TextA})
        \/ Gemini(p, RaceCompletions) \/ Groq(p, RaceCompletions)
        \/ Step(p)
        \/ History

Spec == Init /\ [][Next]_vars

\* One worker: the requests are served one at a time.
NextSeq ==
    \E p \in {1} :
        \/ Receive(p, MaxRequestsSeq) \/ Extract(p, AllTexts)
        \/ Gemini(p, Completions) \/ Groq(p, Completions)
        \/ Step(p)

SpecSeq == Init /\ [][NextSeq]_vars

\* calculate_trend applied on its own to a history of up to MaxTrendLen
\* snapshots, as the uploads of documents with these scores leave it.
MaxTrendLen == 3
TrendScores == {5, 61, 88, 100}

Histories ==
    UNION {[1..n -> {[report_id |-> 0, health_score |-> x,
                      overall_risk |-> risk_tier(x)] : x \in TrendScores}]
           : n \in 0..MaxTrendLen}

InitTrend ==
    /\ rev \in {"backend", "api"}
    /\ Fresh
    /\ pc = [p \in Procs |-> "idle"]
    /\ local = [p \in Procs |-> Locals]
    /\ arg \in Histories
    /\ result = ""

ApplyTrend ==
    /\ result = ""
    /\ result' = Trend(arg)
    /\ UNCHANGED <<rev, CACHE, heap, REPORT_HISTORY, SYSTEM_METRICS, pc, local,
                   counter, seen, arg>>

SpecTrend == InitTrend /\ [][ApplyTrend]_vars

\* calculate_risk_score applied on its own: to every list of up to MaxParams
\* normalized parameters over these statuses, and to three longer lists
\* whose scores are 45, 44 and the floor.
MaxParams == 4
ScoreStatuses == {"critical", "high", "low", "normal", "borderline"}

ScoreParam(status) ==
    [name |-> "", status |-> status, confidence |-> generate_confidence(status, "lo"),
     explanation |-> <<"given", "", "">>, red_flag |-> is_red_flag(status)]

ParamLists ==
    UNION {[1..n -> {ScoreParam(s) : s \in ScoreStatuses}] : n \in 0..MaxParams}

LongLists ==
    {[i \in 1..6 |-> ScoreParam(<<"critical", "high", "low", "normal", "normal",
                                  "normal">>[i])],
     [i \in 1..5 |-> ScoreParam(<<"critical", "critical", "normal", "normal",
                                  "normal">>[i])],
     [i \in 1..5 |-> ScoreParam("critical")]}

InitScore ==
    /\ rev = "backend"
    /\ Fresh
    /\ pc = [p \in Procs |-> "idle"]
    /\ local = [p \in Procs |-> Locals]
    /\ arg \in ParamLists \cup LongLists
    /\ result = ""

\* pc[1] tells that the function has returned.
ApplyScore ==
    /\ pc[1] = "idle"
    /\ result' = calculate_risk_score(arg)
    /\ pc' = [pc EXCEPT ![1] = "returned"]
    /\ UNCHANGED <<rev, CACHE, heap, REPORT_HISTORY, SYSTEM_METRICS, local,
                   counter, seen, arg>>

SpecScore == InitScore /\ [][ApplyScore]_vars

---------------------------------------------------------------------------
(***************************************************************************)
(* The claims.  A call of analyze_medical_text has returned to worker p    *)
(* when p stands at "append"; it has raised when p holds exc = "analysis". *)
(***************************************************************************)
HasReturned(p) == pc[p] = "append"
ReturnedMiss(p) == HasReturned(p) /\ ~local[p].hit
Returned_(p) == heap[local[p].ai_result]
Failed(event) == ~event[3]
BothFailed(p) ==
    /\ Len(local[p].events) = 2
    /\ Failed(local[p].events[1])
    /\ Failed(local[p].events[2])

\* C1: every live report (stored in CACHE or just returned to a handler) and
\* every entry of REPORT_HISTORY has an integer health_score from 5 to 100.
C1_ScoreInRange ==
    /\ \A id \in DOMAIN heap : heap[id].risk_metrics.health_score \in 5..100
    /\ \A i \in 1..Len(REPORT_HISTORY) : REPORT_HISTORY[i].health_score \in 5..100
    /\ \A p \in Procs : HasReturned(p) => local[p].ai_result \in DOMAIN heap

\* An upload whose report has five critical findings (100 - 125 before the
\* clamp) has been answered and recorded with the score 5.
C1_Witness ==
    \E p \in Procs :
        /\ pc[p] = "respond" /\ local[p].status = 200
        /\ heap[local[p].ai_result].risk_metrics.critical_count = 5
        /\ heap[local[p].ai_result].risk_metrics.health_score = 5
        /\ REPORT_HISTORY[Len(REPORT_HISTORY)].health_score = 5

\* C2: on a cache miss the engines are attempted in the order gemini, groq,
\* each at most once, gemini exactly once, groq only after gemini failed,
\* the offline result only after both failed; audit.engine of the report
\* names the first engine that succeeded.
C2_FallbackOrder ==
    \A p \in Procs :
        LET ev == local[p].events
        IN  /\ Len(ev) <= 2
            /\ Len(ev) >= 1 => ev[1][1] = "gemini"
            /\ Len(ev) = 2 => ev[2][1] = "groq" /\ Failed(ev[1])
            /\ pc[p] = "groq" => Len(ev) = 1 /\ Failed(ev[1])
            /\ pc[p] = "normalize" \/ ReturnedMiss(p) =>
                  /\ Len(ev) >= 1
                  /\ (local[p].raw = analyze_with_regex /\ local[p].engine_used = "regex")
                        => BothFailed(p)
            /\ ReturnedMiss(p) =>
                  /\ ~Failed(ev[1]) => Returned_(p).audit.engine = "gemini"
                  /\ (Len(ev) = 2 /\ ~Failed(ev[2])) => Returned_(p).audit.engine = "groq"
                  /\ Returned_(p).audit.engine \in {"gemini", "groq"} =>
                        ~Failed(ev[Len(ev)])

\* A miss has returned the answer of the secondary engine after the primary
\* one had failed.
C2_Witness ==
    \E p \in Procs :
        /\ ReturnedMiss(p)
        /\ Len(local[p].events) = 2
        /\ ~Failed(local[p].events[2])
        /\ Returned_(p).audit.engine = "groq"

C4_NonJsonFallsBack ==
    \A p \in Procs :
        LET ev == local[p].events
            nonjson(i) == Len(ev) >= i /\ ev[i][2] = "nonjson"
        IN  /\ nonjson(1) => pc[p] = "groq" \/ Len(ev) = 2
            /\ (nonjson(1) /\ nonjson(2)) =>
                  /\ local[p].exc # "analysis"
                  /\ pc[p] \in {"normalize", "append"}
                  /\ pc[p] = "normalize" => ~normalize_raises(local[p].raw)
                  /\ HasReturned(p) => Returned_(p).parameters = <<>>
            /\ local[p].exc = "analysis" => \E i \in 1..Len(ev) : ev[i][2] = "json"
            /\ \A i \in 1..Len(ev) : ev[i][2] = "nonjson" => Failed(ev[i])

\* Both engines have answered with text that holds no JSON, and the call
\* has returned.
C4_Witness ==
    \E p \in Procs :
        /\ HasReturned(p)
        /\ local[p].events = <<<<"gemini", "nonjson", FALSE>>,
                               <<"groq", "nonjson", FALSE>>>>
        /\ Returned_(p).parameters = <<>>

\* C5: analyze_medical_text never raises, whatever the engines answer.
C5_NeverRaises ==
    \A p \in Procs : local[p].exc # "analysis"

C7_PrimaryOncePerText ==
    /\ \A p \in Procs : local[p].hit => local[p].events = <<>>
    /\ seen.primary <= Cardinality(seen.analysed)

\* C8: all calls with one text return the same report: the parameters and
\* risk_metrics of the first report returned for the text, which is the
\* report CACHE holds for it.
C8_OneReportPerText ==
    \A p \in Procs :
        HasReturned(p) =>
            LET first == seen.first[local[p].text][1]
                stored == heap[CACHE[get_text_hash(local[p].text)]]
            IN  /\ Returned_(p).parameters = first.report.parameters
                /\ Returned_(p).risk_metrics = first.report.risk_metrics
                /\ stored.parameters = first.report.parameters
                /\ stored.risk_metrics = first.report.risk_metrics

\* The newest n entries of a list, in its order.
LastOf(list, n) == SubSeq(list, Len(list) - n + 1, Len(list))

\* C9: with the uploads served one at a time, between two requests
\* REPORT_HISTORY holds at most 15 entries, namely the newest of all the
\* snapshots ever appended, in the order they were appended.
C9_NewestFifteen ==
    pc[1] = "idle" =>
        /\ Len(REPORT_HISTORY) <= 15
        /\ REPORT_HISTORY = LastOf(seen.appended, Min(15, Len(seen.appended)))

\* More than 16 uploads have succeeded, the last of them in this run, and
\* the worker is between two requests.
C9_Witness ==
    /\ pc[1] = "idle"
    /\ Len(seen.appended) > 16
    /\ Len(REPORT_HISTORY) = 15
    /\ REPORT_HISTORY[15].report_id = Len(seen.appended)
    /\ REPORT_HISTORY[1].report_id = Len(seen.appended) - 14

\* What C10 says of a history.
ClaimedTrend(h) ==
    IF Len(h) <= 1 THEN "stable"
    ELSE IF h[Len(h)].health_score > h[Len(h) - 1].health_score
         THEN "improving"
    ELSE IF h[Len(h)].health_score < h[Len(h) - 1].health_score
         THEN "declining"
    ELSE "stable"

SameLastTwo(h1, h2) ==
    /\ Len(h1) >= 2 /\ Len(h2) >= 2
    /\ h1[Len(h1)] = h2[Len(h2)]
    /\ h1[Len(h1) - 1] = h2[Len(h2) - 1]

\* C10: calculate_trend gives "stable" for fewer than two entries, and
\* otherwise "improving", "declining" or "stable" as the last health_score
\* is above, below or equal to the one before it; histories that agree on
\* their last two entries get the same trend.
C10_Trend ==
    result # "" =>
        /\ result = ClaimedTrend(arg)
        /\ \A other \in Histories : SameLastTwo(arg, other) => Trend(other) = result

\* The trend of a history of three has been computed, whose first entry
\* would give another trend than the one before the last does.
C10_Witness ==
    /\ result = "declining"
    /\ Len(arg) = 3
    /\ arg[1].health_score < arg[3].health_score

\* The number of parameters of a list whose status is in a set.
CountStatus(parameters, statuses) ==
    Cardinality({i \in 1..Len(parameters) : parameters[i].status \in statuses})

\* C11: calculate_risk_score returns health_score =
\* max(5, min(100, 100 - 25*c - 12*a - 2*n)), critical_count = c and
\* abnormal_count = a, with c, a, n the numbers of parameters of status
\* critical, high or low, and normal; other statuses count for nothing.
C11_ScoreFormula ==
    pc[1] = "returned" =>
        LET c == CountStatus(arg, {"critical"})
            a == CountStatus(arg, {"high", "low"})
            n == CountStatus(arg, {"normal"})
        IN  /\ result.health_score = Max(5, Min(100, 100 - 25 * c - 12 * a - 2 * n))
            /\ result.critical_count = c
            /\ result.abnormal_count = a

\* The list [critical, high, normal] has been scored 61, 1, 1.
C11_Witness ==
    /\ pc[1] = "returned"
    /\ [i \in 1..Len(arg) |-> arg[i].status] = <<"critical", "high", "normal">>
    /\ result.health_score = 61
    /\ result.critical_count = 1
    /\ result.abnormal_count = 1

\* C12: overall_risk is "low-risk" exactly when health_score >= 75,
\* "moderate-risk" exactly when 45 <= health_score < 75, and "high-risk"
\* exactly when health_score < 45.
C12_TierThresholds ==
    pc[1] = "returned" =>
        /\ result.overall_risk = "low-risk" <=> result.health_score >= 75
        /\ result.overall_risk = "moderate-risk" <=>
              (45 <= result.health_score /\ result.health_score < 75)
        /\ result.overall_risk = "high-risk" <=> result.health_score < 45

\* A list with the score 75, the lowest of the first tier, has been scored.
C12_Witness ==
    /\ pc[1] = "returned"
    /\ result.health_score = 75
    /\ result.overall_risk = "low-risk"

\* The list rearranged by a permutation of its indices.
Permuted(list, perm) == [i \in 1..Len(list) |-> list[perm[i]]]

\* C13: every permutation of the parameter list gets the same health_score,
\* critical_count and abnormal_count.
C13_OrderIndependent ==
    pc[1] = "returned" =>
        \A perm \in Permutations(1..Len(arg)) :
            LET other == calculate_risk_score(Permuted(arg, perm))
            IN  /\ other.health_score = result.health_score
                /\ other.critical_count = result.critical_count
                /\ other.abnormal_count = result.abnormal_count

\* A list that starts with a status the scorer does not know and goes on
\* with findings that cost points has been scored.
C13_Witness ==
    /\ pc[1] = "returned"
    /\ Len(arg) = 3
    /\ arg[1].status = "borderline"
    /\ arg[2].status = "critical"
    /\ arg[3].status = "low"
    /\ result.health_score = 63

\* Worker p is about to answer a request whose document gave no usable text.
AnswersUnreadable(p) ==
    /\ pc[p] = "respond"
    /\ local[p].extracted_text # ABSENT
    /\ unreadable(local[p].extracted_text)

\* C14: a request whose extracted text is empty or shorter than 10
\* characters is answered with a 4xx status, not with the 500 of a failure
\* of the analysis, and analyze_medical_text is not called for it.
C14_ExtractionFailure4xx ==
    \A p \in Procs :
        AnswersUnreadable(p) =>
            /\ local[p].status \in 400..499
            /\ local[p].text = "" /\ local[p].events = <<>> /\ ~local[p].hit

\* C15: no step of any execution, those with interleaved increments
\* included, lowers total_files_processed, successful_scans, failed_scans
\* or ocr_extractions.
C15_CountersNonDecreasing ==
    [][\A k \in DOMAIN SYSTEM_METRICS : SYSTEM_METRICS'[k] >= SYSTEM_METRICS[k]]_vars

\* C16: whenever a /history request is answered, with uploads interleaving
\* at the level of statements, it reports at most 15 entries.
C16_HistoryAtMost15 ==
    history.count <= 15

\* C17: the increments of successful_scans and total_files_processed are a
\* read and a later write of the value read plus one, whatever the counter
\* holds by then; so two successful uploads that both read before either
\* writes leave the counter one higher, not two (C17_Witness).
C17_WriteOfStaleRead ==
    [][\A p \in Procs :
          /\ (pc[p] = "succ_write" /\ pc'[p] = "update") =>
                SYSTEM_METRICS'.successful_scans = local[p].tmp + 1
          /\ (pc[p] = "total_write" /\ pc'[p] = "succ_read") =>
                SYSTEM_METRICS'.total_files_processed = local[p].tmp + 1]_vars

\* Two uploads, served at the same time and the only requests of the run,
\* have both succeeded, and both counters have grown by one.
C17_Witness ==
    /\ \A p \in Procs : pc[p] = "respond" /\ local[p].status = 200
    /\ counter.req = counter.base + 2
    /\ Len(seen.appended) = counter.base + 2
    /\ SYSTEM_METRICS.successful_scans = counter.base + 1
    /\ SYSTEM_METRICS.total_files_processed = counter.base + 1

\* The report CACHE holds for a text, and the one computed for it first.
Stored(text) == heap[CACHE[get_text_hash(text)]]
Original(text) == seen.first[text][1].report

\* C18: with the calls made one after the other, the report stored for a
\* text keeps the parameters (with their confidences), risk_metrics,
\* summary, recommendations, user_profile, audit.analysis_id and
\* audit.timestamp computed on the miss, however many hits follow; a hit
\* leaves cache_hit = true, engine = "cache" and processing_time_ms = 1.
C18_HitKeepsReport ==
    \A text \in AllTexts :
        seen.first[text] # <<>> =>
            /\ InCache(text)
            /\ CACHE[get_text_hash(text)] = seen.first[text][1].obj
            /\ Stored(text).parameters = Original(text).parameters
            /\ Stored(text).risk_metrics = Original(text).risk_metrics
            /\ Stored(text).summary = Original(text).summary
            /\ Stored(text).recommendations = Original(text).recommendations
            /\ Stored(text).user_profile = Original(text).user_profile
            /\ Stored(text).audit.analysis_id = Original(text).audit.analysis_id
            /\ Stored(text).audit.timestamp = Original(text).audit.timestamp
            /\ \A p \in Procs :
                  (HasReturned(p) /\ local[p].hit /\ local[p].text = text) =>
                      Stored(text).audit =
                          [Original(text).audit EXCEPT !.cache_hit = TRUE,
                                                       !.engine = "cache",
                                                       !.processing_time_ms = 1]

\* A process started afresh has analysed TextB three times: a miss whose
\* confidences were drawn, and two hits, the second of which has returned.
C18_Witness ==
    /\ counter.base = 0
    /\ seen.analysed = {TextB}
    /\ Len(seen.appended) = 2
    /\ HasReturned(1) /\ local[1].hit
    /\ Original(TextB).parameters # <<>>
    /\ Original(TextB).parameters[1].confidence = 90
    /\ Original(TextB).audit.engine = "groq"

\* The first report computed for a text was the offline one.
OfflineFirst(text) ==
    /\ seen.first[text] # <<>>
    /\ Original(text).audit.engine = "regex"

\* C19: with the calls made one after the other, a miss that returns has
\* stored its report in CACHE whichever engine produced it, the offline
\* result included; and once the offline result has been returned for a
\* text, no later call with that text attempts an engine: each returns the
\* stored report, with parameters = [].
C19_FallbackStaysCached ==
    /\ \A p \in Procs :
          ReturnedMiss(p) =>
              /\ get_text_hash(local[p].text) \in DOMAIN CACHE
              /\ CACHE[get_text_hash(local[p].text)] = local[p].ai_result
              /\ Returned_(p).audit.engine \in {"gemini", "groq", "regex"}
    /\ \A text \in AllTexts :
          OfflineFirst(text) =>
              /\ get_text_hash(text) \in DOMAIN CACHE
              /\ CACHE[get_text_hash(text)] = seen.first[text][1].obj
              /\ Stored(text).parameters = <<>>
              /\ \A p \in Procs :
                    local[p].text = text =>
                        /\ pc[p] \notin {"gemini", "groq", "normalize"}
                        /\ local[p].prior => local[p].events = <<>>
                        /\ HasReturned(p) =>
                              /\ local[p].ai_result = seen.first[text][1].obj
                              /\ Returned_(p).parameters = <<>>

\* The offline result was returned for TextB after both engines had failed,
\* and a later call with TextB has returned it from CACHE.
C19_Witness ==
    /\ OfflineFirst(TextB)
    /\ HasReturned(1) /\ local[1].text = TextB
    /\ local[1].prior /\ local[1].hit
    /\ Returned_(1).summary = "Offline extraction used."
    /\ Returned_(1).audit.engine = "cache"

\* C20: every confidence the engine supplied as a number, 0 included, is
\* the confidence of the normalized parameter; only a parameter without
\* one gets a synthesized confidence.
C20_SuppliedConfidenceKept ==
    \A p \in Procs :
        ReturnedMiss(p) =>
            \A i \in 1..Len(local[p].raw.parameters.items) :
                LET supplied == local[p].raw.parameters.items[i].confidence
                IN  supplied.kind = "num" =>
                        Returned_(p).parameters[i].confidence = supplied.val

\* Worker p is between two requests, or inside a request that has not yet
\* appended its snapshot, or about to answer a request that failed.
BeforeAppend(p) ==
    \/ pc[p] \in {"idle", "extract", "fail_read", "fail_write", "lookup", "gemini",
                  "groq", "normalize", "append"}
    \/ pc[p] = "respond" /\ local[p].status # 200

\* C21: with the uploads served one at a time, between two requests and all
\* through a request that fails (no file, invalid file, unreadable text,
\* exception of the analysis), len(REPORT_HISTORY) = min(15,
\* successful_scans), total_files_processed = successful_scans, and the
\* snapshots appended so far are as many as successful_scans: one entry per
\* successful upload, none for a failed one.
C21_HistoryCountsSuccesses ==
    BeforeAppend(1) =>
        /\ Len(REPORT_HISTORY) = Min(15, SYSTEM_METRICS.successful_scans)
        /\ SYSTEM_METRICS.total_files_processed = SYSTEM_METRICS.successful_scans
        /\ Len(seen.appended) = SYSTEM_METRICS.successful_scans
        /\ REPORT_HISTORY = LastOf(seen.appended, Min(15, Len(seen.appended)))

\* Sixteen uploads have succeeded, two of them in this run, a third request
\* of the run has failed, and the worker is between two requests.
C21_Witness ==
    /\ pc[1] = "idle"
    /\ counter.req = counter.base + 3
    /\ SYSTEM_METRICS.successful_scans = 16
    /\ SYSTEM_METRICS.failed_scans = 1
    /\ Len(REPORT_HISTORY) = 15

\* C22: with the uploads served one at a time, in both revisions, every
\* request has raised exactly one of successful_scans and failed_scans by
\* one when it is answered: between two requests their sum is the number
\* of requests answered, and a request about to be answered has raised
\* successful_scans if its status is 200 and failed_scans otherwise.
C22_OneCounterPerRequest ==
    /\ pc[1] = "idle" =>
          SYSTEM_METRICS.successful_scans + SYSTEM_METRICS.failed_scans = counter.req
    /\ pc[1] = "respond" =>
          /\ SYSTEM_METRICS.successful_scans + SYSTEM_METRICS.failed_scans = counter.req
          /\ local[1].status = 200 =>
                SYSTEM_METRICS.successful_scans = Len(seen.appended)

\* C23: every report stored in CACHE has exactly the keys user_profile,
\* parameters, summary, recommendations, risk_metrics and audit: the
\* handler's meta, history, trend and system_stats go to the response only.
C23_StoredReportCanonical ==
    \A h \in DOMAIN CACHE : DOMAIN heap[CACHE[h]] = CanonicalKeys

===========================================================================
